---- MODULE Spec2Model ----
(***************************************************************************)
(* Model of jscriptlogger/client: the request/response Client over a       *)
(* WebSocket-like transport (src/Client.ts) and the LoggerNetwork facade   *)
(* that serialises log lines onto it (src/LoggerNetwork.ts).               *)
(*                                                                         *)
(* Optional values (T | null) are modelled as sequences of length <= 1:    *)
(* <<>> is null, <<v>> is the value v.                                     *)
(* Time is the wall clock in seconds; one handler runs at one instant.     *)
(* Random 64-bit ids are modelled as fresh values (no collisions).         *)
(***************************************************************************)
EXTENDS Integers, Sequences, FiniteSets, TLC

\* ---------------------------------------------------------------- bounds
MaxRequests == 1
MaxEpochs == 3
MaxTime == 20
MaxLines == 2

\* ------------------------------------------------------ program constants
ExpirationSeconds == 10
DefaultMaxRetryCount == 4

VARIABLES
  now,         \* DateTime.now(), seconds
  connection,  \* Client.#connection: <<>> or <<[epoch, readyState]>>
  epochs,      \* number of transports constructed so far
  live,        \* the transports constructed whose close event has not fired
  session,     \* Client.#session: <<>> or <<id>>
  sessions,    \* number of session ids generated so far
  nextId,      \* number of request ids generated so far
  pending,     \* Client.#pending: requestId -> IPending
  resolved,    \* per request id, the values its resolver was invoked with
  writes,      \* per request id, the frames written: [at, session, epoch]
  wire,        \* request frames written on the current transport, in flight
  peerOwes,    \* request ids the peer received and has not answered yet
  peerKnown,   \* request ids the peer has ever received
  results,     \* per request id, the first result frame given to onMessage
               \* for it (<<>> when none yet)
  pageId,      \* LoggerNetwork.#pageId promise: "pending", "null", "id", "rejected"
  logLines,    \* the log/error calls made so far, in order (their line type)
  logDone,     \* number of links of LoggerNetwork.#pending that have fulfilled
  logPc,       \* position of the running link: "idle", "awaitPageId", "awaitSend", "rejected"
  logReq,      \* <<>> or <<id>>: the request the running link awaits
  issued       \* [line, id] of every sendMessage made by the logger, in order

clientVars == <<connection, epochs, live, session, sessions, pending, writes, wire>>
peerVars == <<peerOwes, peerKnown>>
loggerVars == <<pageId, logLines, logDone, logPc, logReq, issued>>
vars == <<now, clientVars, nextId, resolved, peerVars, results, loggerVars>>

\* The request ids: at most MaxRequests of other callers, and one per log line.
Ids == 1..(MaxRequests + MaxLines)
\* An id the registry never holds.
UnknownId == MaxRequests + MaxLines + 1
\* The clock is read every half window.
TickSeconds == ExpirationSeconds \div 2
Payloads == {"p1", "p2"}
MaxRetryCounts == {1}

\* The decoded server messages (and the inputs onMessage drops before the switch).
ResultFrames ==
  [name : {"messageResultSuccess", "messageResultError"}, id : Ids, payload : Payloads]
    \cup [name : {"messageResultSuccess", "messageResultError"}, id : {UnknownId}, payload : {"p1"}]
AckFrames ==
  [name : {"acknowledgeMessage"}, id : Ids \cup {UnknownId}, payload : {"p1"}]
OtherFrames ==
  [name : {"messageProtocolError", "notArrayBuffer", "undecodable", "unknownTag"},
   id : {UnknownId}, payload : {"p1"}]
Frames == ResultFrames \cup AckFrames \cup OtherFrames

\* ------------------------------------------------------------ Client.ts

\* The part of the state #sendMessageRequest reads and writes.
ClientState ==
  [now |-> now, connection |-> connection, epochs |-> epochs, live |-> live, session |-> session,
   sessions |-> sessions, pending |-> pending, writes |-> writes, wire |-> wire]

Commit(st) ==
  /\ connection' = st.connection
  /\ epochs' = st.epochs
  /\ live' = st.live
  /\ session' = st.session
  /\ sessions' = st.sessions
  /\ pending' = st.pending
  /\ writes' = st.writes
  /\ wire' = st.wire

\* A slip in the expiry test: the attempt's date instead of its expiresAt.
isPendingSentInformationExpired_ByDate(input, t) == t >= input.date

isPendingSentInformationExpired(input, t) == t >= input.expiresAt

isConnected(st) ==
  /\ st.connection # <<>>
  /\ st.connection[1].readyState = "OPEN"

\* A slip in #connect: the early return is missing.
connect_Always(st) ==
  [st EXCEPT !.connection = <<[epoch |-> st.epochs + 1, readyState |-> "CONNECTING"]>>,
             !.epochs = st.epochs + 1,
             !.live = @ \cup {st.epochs + 1}]

\* #connect: nothing when a transport is held, else a new one is constructed
connect(st) ==
  IF st.connection # <<>>
  THEN st
  ELSE [st EXCEPT !.connection = <<[epoch |-> st.epochs + 1, readyState |-> "CONNECTING"]>>,
                  !.epochs = st.epochs + 1,
                  !.live = @ \cup {st.epochs + 1}]

\* #send: FALSE when the transport is absent or not open, else the frame is written.
sendOk(st) == st.connection # <<>> /\ st.connection[1].readyState = "OPEN"

send(st, frame) ==
  IF ~sendOk(st)
  THEN st
  ELSE [st EXCEPT !.wire = @ \cup {frame},
                  !.writes[frame.requestId] =
                     Append(@, [at |-> st.now, session |-> frame.sessionId,
                                epoch |-> st.connection[1].epoch])]

ensureSession(st) ==
  IF st.session = <<>>
  THEN [st EXCEPT !.session = <<st.sessions + 1>>, !.sessions = st.sessions + 1]
  ELSE st

sendMessageRequest(st0, id) ==
  IF ~isConnected(st0)
  THEN connect(st0)
  ELSE
    LET st == ensureSession(st0)
        p == st.pending[id]
        isExpired == p.sent # <<>> /\ st.now >= p.sent[1].expiresAt
        encoded == [requestId |-> p.requestId, sessionId |-> st.session[1], request |-> p.request]
        attempt == [date |-> st.now, expiresAt |-> st.now + ExpirationSeconds]
    IN IF isExpired
       THEN IF p.retries # <<>> /\ ~isPendingSentInformationExpired(p.retries[Len(p.retries)], st.now)
            THEN st
            ELSE IF sendOk(st)
                 THEN [send(st, encoded) EXCEPT !.pending[id].retries = Append(@, attempt)]
                 ELSE st
       ELSE IF p.sent # <<>>
            THEN st
            ELSE IF sendOk(st)
                 THEN [send(st, encoded) EXCEPT !.pending[id].sent = <<attempt>>]
                 ELSE st

\* A slip in the drive pass: acknowledged requests are passed over.
RECURSIVE driveFrom_SkipAcknowledged(_, _)
driveFrom_SkipAcknowledged(st, id) ==
  IF id \notin Ids
  THEN st
  ELSE driveFrom_SkipAcknowledged(
         IF id \in DOMAIN st.pending /\ ~st.pending[id].acknowledged
         THEN sendMessageRequest(st, id)
         ELSE st,
         id + 1)

\* A design that honours maxRetryCount: a request that has used up its
\* retries is dropped by the drive pass.
RECURSIVE driveFrom_Capped(_, _)
driveFrom_Capped(st, id) ==
  IF id \notin Ids
  THEN st
  ELSE driveFrom_Capped(
         IF id \notin DOMAIN st.pending
         THEN st
         ELSE IF Len(st.pending[id].retries) >= st.pending[id].maxRetryCount
              THEN [st EXCEPT !.pending = [i \in DOMAIN st.pending \ {id} |-> st.pending[i]]]
              ELSE sendMessageRequest(st, id),
         id + 1)

\* #checkPendingRequests: the Map iterates in insertion order, which is the
\* order in which the ids were generated.
RECURSIVE driveFrom(_, _)
driveFrom(st, id) ==
  IF id \notin Ids
  THEN st
  ELSE driveFrom(IF id \in DOMAIN st.pending THEN sendMessageRequest(st, id) ELSE st, id + 1)

checkPendingRequests(st) == driveFrom(st, 1)

newPending(id, request, maxRetryCount) ==
  [requestId |-> id, request |-> request, maxRetryCount |-> maxRetryCount,
   retries |-> <<>>, sent |-> <<>>, acknowledged |-> FALSE]

\* sendMessage: register the pending entry, then drive it once.
sendMessage(st, id, request, maxRetryCount) ==
  sendMessageRequest(
    [st EXCEPT !.pending = [i \in DOMAIN st.pending \cup {id} |->
                              IF i = id THEN newPending(id, request, maxRetryCount)
                              ELSE st.pending[i]]],
    id)

\* onMessage works on the registry and the resolvers; report is what it gives
\* to the logger's error(), "none" when it logs nothing.
MessageState == [pending |-> pending, resolved |-> resolved, report |-> "none"]

\* A slip in the deletion: the Map is left as it is.
withoutId_Keeps(f, id) == f

\* this.#pending.delete(id)
withoutId(f, id) == [i \in DOMAIN f \ {id} |-> f[i]]

\* A slip in the acknowledge case: the flag is flipped.
onAcknowledge_Toggle(ms, f) ==
  IF f.id \notin DOMAIN ms.pending
  THEN [ms EXCEPT !.report = "failed to find request to mark it as acknowledged"]
  ELSE [ms EXCEPT !.pending[f.id].acknowledged = ~@]

\* case acknowledgeMessage
onAcknowledge(ms, f) ==
  IF f.id \notin DOMAIN ms.pending
  THEN [ms EXCEPT !.report = "failed to find request to mark it as acknowledged"]
  ELSE IF ms.pending[f.id].acknowledged
       THEN [ms EXCEPT !.report = "tried to acknowledge an already acknowledged request"]
       ELSE [ms EXCEPT !.pending[f.id].acknowledged = TRUE]

\* A slip in the inner switch: both cases hand over as a result.
resolution_AlwaysResult(f) == [kind |-> "Result", value |-> f.payload]

\* the value handed to pending.resolve: result.result or result.error
resolution(f) ==
  IF f.name = "messageResultSuccess"
  THEN [kind |-> "Result", value |-> f.payload]
  ELSE [kind |-> "Error", value |-> f.payload]

\* A slip in the result case: the entry is resolved and left in the registry.
onResult_NoDelete(ms, f) ==
  IF f.id \notin DOMAIN ms.pending
  THEN [ms EXCEPT !.report = "failed to find request"]
  ELSE [ms EXCEPT !.resolved[f.id] =
                     Append(@, [kind |-> resolution(f).kind, value |-> resolution(f).value,
                                inRegistry |-> TRUE])]

\* A slip in the result case: the lookup is not tested.
onResult_NoLookup(ms, f) ==
  IF f.id \notin Ids
  THEN ms
  ELSE LET deleted == withoutId(ms.pending, f.id)
       IN [ms EXCEPT !.pending = deleted,
                     !.resolved[f.id] =
                        Append(@, [kind |-> resolution(f).kind, value |-> resolution(f).value,
                                   inRegistry |-> f.id \in DOMAIN deleted])]

\* case messageResultError / messageResultSuccess: the entry is deleted, then
\* its resolver is invoked; inRegistry records whether the entry was still in
\* the registry when the resolver ran.
onResult(ms, f) ==
  IF f.id \notin DOMAIN ms.pending
  THEN [ms EXCEPT !.report = "failed to find request"]
  ELSE LET deleted == withoutId(ms.pending, f.id)
       IN [ms EXCEPT !.pending = deleted,
                     !.resolved[f.id] =
                        Append(@, [kind |-> resolution(f).kind, value |-> resolution(f).value,
                                   inRegistry |-> f.id \in DOMAIN deleted])]

onMessage(ms, f) ==
  CASE f.name = "notArrayBuffer" -> ms
    [] f.name = "undecodable" -> [ms EXCEPT !.report = "failed to decode"]
    [] f.name = "acknowledgeMessage" -> onAcknowledge(ms, f)
    [] f.name = "messageProtocolError" -> [ms EXCEPT !.report = "received protocol error"]
    [] f.name \in {"messageResultError", "messageResultSuccess"} -> onResult(ms, f)
    [] OTHER -> [ms EXCEPT !.report = "failed to process message"]

\* A slip in onOpen: the pending requests are not driven.
onOpen_NoDrive(st) == st

\* onOpen, run when the transport reports OPEN
onOpen(st) == checkPendingRequests(st)

\* A design that forgets the attempts made on the transport that closed.
onClose_ClearSent(st) ==
  connect([st EXCEPT !.connection = <<>>,
                     !.pending = [i \in DOMAIN st.pending |-> [st.pending[i] EXCEPT !.sent = <<>>]]])

\* A slip in onClose: no new transport when nothing is pending.
onClose_IfPending(st) ==
  IF DOMAIN st.pending = {}
  THEN [st EXCEPT !.connection = <<>>]
  ELSE connect([st EXCEPT !.connection = <<>>])

\* onClose: the transport is dropped and a new one constructed at once
onClose(st) == connect([st EXCEPT !.connection = <<>>])

\* ------------------------------------------------------- LoggerNetwork.ts

\* AddPageLine({line, pageId, lineType})
AddPageLine(line, lineType) == [line |-> line, lineType |-> lineType]
DirectRequest == [line |-> 0, lineType |-> "direct"]

\* A slip in #store: the new link is not chained on the previous one.
storeMayStart_NoChain == logPc # "rejected" /\ logDone < Len(logLines)

\* the link of the #pending chain that runs next may start only when the
\* previous link has fulfilled
storeMayStart == logPc = "idle" /\ logDone < Len(logLines)

\* A slip in #store: the null check is missing.
storeBranch_NoNullCheck(pid) == IF pid = "rejected" THEN "throw" ELSE "send"

\* what the link does once this.#pageId has settled with pid
storeBranch(pid) ==
  IF pid = "rejected" THEN "throw"
  ELSE IF pid = "null" THEN "return"
  ELSE "send"

\* A slip in #store: the await is missing.
sendSettled_NoAwait(id) == TRUE

\* await this.#client.sendMessage(...): the link goes on once the promise of
\* request id has settled
sendSettled(id) == resolved[id] # <<>>

\* ------------------------------------------------------------------ Init

Init ==
  /\ now = 0
  /\ connection = <<>>
  /\ epochs = 0
  /\ live = {}
  /\ session = <<>>
  /\ sessions = 0
  /\ nextId = 0
  /\ pending = [i \in {} |-> 0]
  /\ resolved = [i \in Ids |-> <<>>]
  /\ writes = [i \in Ids |-> <<>>]
  /\ wire = {}
  /\ peerOwes = {}
  /\ peerKnown = {}
  /\ results = [i \in Ids |-> <<>>]
  /\ pageId = "pending"
  /\ logLines = <<>>
  /\ logDone = 0
  /\ logPc = "idle"
  /\ logReq = <<>>
  /\ issued = <<>>

\* --------------------------------------------------------------- actions

\* A caller other than the logger calls sendMessage.
SendMessage ==
  /\ nextId - Len(issued) < MaxRequests
  /\ \E m \in MaxRetryCounts :
       Commit(sendMessage(ClientState, nextId + 1, DirectRequest, m))
  /\ nextId' = nextId + 1
  /\ UNCHANGED <<now, resolved, peerVars, results, loggerVars>>

\* The transport finishes its handshake: readyState becomes OPEN and the open
\* event runs onOpen.
TransportOpen ==
  /\ connection # <<>>
  /\ connection[1].readyState = "CONNECTING"
  /\ Commit(onOpen([ClientState EXCEPT !.connection[1].readyState = "OPEN"]))
  /\ UNCHANGED <<now, nextId, resolved, peerVars, results, loggerVars>>

\* The closing handshake starts: the transport is no longer OPEN, its close
\* event has not fired yet (it can still fire: the last transport of a run
\* stays up).
TransportClosing ==
  /\ connection # <<>>
  /\ connection[1].readyState = "OPEN"
  /\ epochs < MaxEpochs
  /\ connection' = <<[connection[1] EXCEPT !.readyState = "CLOSING"]>>
  /\ UNCHANGED <<now, epochs, live, session, sessions, pending, writes, wire, nextId, resolved,
                 peerVars, results, loggerVars>>

\* The error event runs onError, which only logs.
TransportError ==
  /\ connection # <<>>
  /\ UNCHANGED vars

\* The close event runs onClose. What was in flight on the transport is lost:
\* the request frames not yet delivered, and the answers the peer still owed
\* or had written and not yet delivered.
TransportClose ==
  /\ epochs < MaxEpochs
  /\ \E e \in live :
       LET st == onClose([ClientState EXCEPT !.live = @ \ {e}])
       IN Commit([st EXCEPT !.wire = {}])
  /\ peerOwes' = {}
  /\ UNCHANGED <<now, nextId, resolved, peerKnown, results, loggerVars>>

\* A request frame reaches the peer.
Deliver ==
  /\ connection # <<>>
  /\ \E f \in wire :
       /\ wire' = wire \ {f}
       /\ peerKnown' = peerKnown \cup {f.requestId}
       /\ peerOwes' = peerOwes \cup {f.requestId}
  /\ UNCHANGED <<now, connection, epochs, live, session, sessions, pending, writes, nextId, resolved,
                 results, loggerVars>>

\* The frames the peer can send: anything about an id it has received, and
\* anything about an id the registry does not hold.
PeerFrames == {f \in Frames : f.id \in peerKnown \cup {UnknownId}}

\* The message event runs onMessage on a frame the peer has sent.
messageEvent(f) ==
  /\ connection # <<>>
  /\ connection[1].readyState # "CONNECTING"
  /\ LET ms == onMessage(MessageState, f)
     IN /\ pending' = ms.pending
        /\ resolved' = ms.resolved
  /\ peerOwes' = IF f \in ResultFrames THEN peerOwes \ {f.id} ELSE peerOwes
  /\ IF f \in ResultFrames /\ f.id \in Ids
     THEN results' = [results EXCEPT ![f.id] = IF @ = <<>> THEN <<f>> ELSE @]
     ELSE UNCHANGED results
  /\ UNCHANGED <<now, connection, epochs, live, session, sessions, writes, wire, nextId,
                 peerKnown, loggerVars>>

\* The peer answers a request frame it received, and the answer arrives.
PeerAnswer(id) ==
  /\ id \in peerOwes
  /\ \E f \in ResultFrames : f.id = id /\ messageEvent(f)

\* Any other frame of the peer arrives: acknowledgments, repeated results,
\* protocol errors, noise.
OnMessage ==
  \E f \in PeerFrames : ~(f \in ResultFrames /\ f.id \in peerOwes) /\ messageEvent(f)

\* Time passes.
Tick ==
  /\ now + TickSeconds <= MaxTime
  /\ now' = now + TickSeconds
  /\ UNCHANGED <<clientVars, nextId, resolved, peerVars, results, loggerVars>>

\* LoggerNetwork.log / LoggerNetwork.error: #store chains one more link.
LogCall(lineType) ==
  /\ Len(logLines) < MaxLines
  /\ logLines' = Append(logLines, lineType)
  /\ UNCHANGED <<now, clientVars, nextId, resolved, peerVars, results,
                 pageId, logDone, logPc, logReq, issued>>

Log == LogCall("log")

Error == LogCall("error")

\* The pageId promise given to the constructor settles.
PageIdSettle ==
  /\ pageId = "pending"
  /\ pageId' \in {"null", "id", "rejected"}
  /\ UNCHANGED <<now, clientVars, nextId, resolved, peerVars, results,
                 logLines, logDone, logPc, logReq, issued>>

\* The next link of the chain starts: it awaits this.#pageId.
StoreStart ==
  /\ storeMayStart
  /\ logPc' = "awaitPageId"
  /\ UNCHANGED <<now, clientVars, nextId, resolved, peerVars, results,
                 pageId, logLines, logDone, logReq, issued>>

\* pageId === null: the link returns.
StoreNoPageId ==
  /\ logPc = "awaitPageId"
  /\ pageId # "pending"
  /\ storeBranch(pageId) = "return"
  /\ logPc' = "idle"
  /\ logDone' = logDone + 1
  /\ UNCHANGED <<now, clientVars, nextId, resolved, peerVars, results,
                 pageId, logLines, logReq, issued>>

\* awaiting a rejected pageId throws: the link rejects, and with it every
\* later link of the chain.
StorePageIdRejected ==
  /\ logPc = "awaitPageId"
  /\ pageId # "pending"
  /\ storeBranch(pageId) = "throw"
  /\ logPc' = "rejected"
  /\ UNCHANGED <<now, clientVars, nextId, resolved, peerVars, results,
                 pageId, logLines, logDone, logReq, issued>>

\* The link calls client.sendMessage(AddPageLine(...)) and awaits it.
StoreSend ==
  /\ logPc = "awaitPageId"
  /\ pageId # "pending"
  /\ storeBranch(pageId) = "send"
  /\ Commit(sendMessage(ClientState, nextId + 1,
                        AddPageLine(logDone + 1, logLines[logDone + 1]), DefaultMaxRetryCount))
  /\ nextId' = nextId + 1
  /\ logPc' = "awaitSend"
  /\ logReq' = <<nextId + 1>>
  /\ issued' = Append(issued, [line |-> logDone + 1, id |-> nextId + 1])
  /\ UNCHANGED <<now, resolved, peerVars, results, pageId, logLines, logDone>>

\* The awaited sendMessage promise has settled: the link fulfils.
StoreSettled ==
  /\ logPc = "awaitSend"
  /\ sendSettled(logReq[1])
  /\ logPc' = "idle"
  /\ logReq' = <<>>
  /\ logDone' = logDone + 1
  /\ UNCHANGED <<now, clientVars, nextId, resolved, peerVars, results,
                 pageId, logLines, issued>>

\* The client with callers of its own, its transport and its peer.
Next ==
  \/ SendMessage
  \/ TransportOpen
  \/ TransportClosing
  \/ TransportError
  \/ TransportClose
  \/ Deliver
  \/ \E id \in Ids : PeerAnswer(id)
  \/ OnMessage
  \/ Tick

Spec == Init /\ [][Next]_vars

\* The close event of a transport that is closing.
CloseAfterClosing == connection # <<>> /\ connection[1].readyState = "CLOSING" /\ TransportClose

\* The process keeps running, a transport that is connecting eventually
\* opens and one that is closing eventually closes, frames in flight on a
\* live transport arrive, and the peer answers every request frame it has
\* received. A transport that is open may stay open for ever.
FairSpec ==
  /\ Spec
  /\ WF_vars(Tick)
  /\ WF_vars(TransportOpen)
  /\ WF_vars(CloseAfterClosing)
  /\ WF_vars(Deliver)
  /\ \A id \in Ids : WF_vars(PeerAnswer(id))

\* A LoggerNetwork as the only caller of its client.
LoggerNext ==
  \/ Log
  \/ Error
  \/ PageIdSettle
  \/ StoreStart
  \/ StoreNoPageId
  \/ StorePageIdRejected
  \/ StoreSend
  \/ StoreSettled
  \/ TransportOpen
  \/ TransportClosing
  \/ TransportClose
  \/ Deliver
  \/ \E id \in Ids : PeerAnswer(id)
  \/ OnMessage

LoggerSpec == Init /\ [][LoggerNext]_vars

\* ---------------------------------------------------------------- claims

\* the open event of a transport
OpenStep ==
  /\ connection # <<>>
  /\ connection[1].readyState = "CONNECTING"
  /\ connection' # <<>>
  /\ connection'[1].readyState = "OPEN"

\* sendMessage registers request id
CreateStep(id) == id \notin DOMAIN pending /\ id \in DOMAIN pending'

\* every frame written so far
AllWrites == UNION {{writes[id][i] : i \in 1..Len(writes[id])} : id \in Ids}

\* C1: under the fairness of FairSpec (time passes, a connecting transport
\* opens, frames in flight on a live transport arrive, the peer answers what
\* it received), every request whose frame the peer has received eventually
\* settles. This is the weakest reading of the claim: the requests whose
\* frame never reached the peer are left out.
C1_EventuallySettles == \A id \in Ids : (id \in peerKnown) ~> (resolved[id] # <<>>)

\* C2: the resolver of a request has been invoked once if a result frame with
\* its id has been given to onMessage (the first one finds it pending), and
\* never otherwise, however many result frames with that id followed.
C2_ResolverOnce ==
  \A id \in Ids : Len(resolved[id]) = (IF results[id] = <<>> THEN 0 ELSE 1)

C2_Witness == \E id \in Ids : Len(resolved[id]) = 1 /\ id \notin DOMAIN pending

\* C3: a settled request was settled by a result frame carrying its own id,
\* with that frame's result (ResultSuccess) or error (ResultError).
C3_SettledByOwnFrame ==
  \A id \in Ids :
    resolved[id] # <<>> =>
      /\ results[id] # <<>>
      /\ results[id][1].id = id
      /\ resolved[id][1].value = results[id][1].payload
      /\ resolved[id][1].kind =
           (IF results[id][1].name = "messageResultSuccess" THEN "Result" ELSE "Error")

C3_Witness ==
  \E id \in Ids : resolved[id] # <<>> /\ resolved[id][1].kind = "Error" /\ resolved[id][1].value = "p2"

\* C4: a sendMessage made while the transport is not open leaves a transport
\* in place (constructing one when there was none) and writes nothing; the
\* first frame of a request is written only by an open event or by a
\* sendMessage made while open; and an open event writes exactly one frame
\* for every pending request that has none written yet.
C4_FirstWriteAtOpen ==
  [][\A id \in Ids :
       /\ (CreateStep(id) /\ ~isConnected(ClientState)) =>
            /\ connection' # <<>>
            /\ (connection = <<>> => epochs' = epochs + 1)
            /\ writes'[id] = <<>>
       /\ (writes[id] = <<>> /\ writes'[id] # <<>>) =>
            (OpenStep \/ (CreateStep(id) /\ isConnected(ClientState)))
       /\ (OpenStep /\ id \in DOMAIN pending /\ writes[id] = <<>>) => Len(writes'[id]) = 1
    ]_vars

C4_Witness ==
  /\ 1 \in DOMAIN pending
  /\ Len(writes[1]) = 1
  /\ writes[1][1].at > 0
  /\ epochs = 1
  /\ isConnected(ClientState)

\* C5: two successive writes of one request's frame are at least the
\* 10-second window apart.
C5_WritesApart ==
  \A id \in Ids : \A i \in 1..(Len(writes[id]) - 1) :
    writes[id][i + 1].at - writes[id][i].at >= ExpirationSeconds

C5_Witness == \E id \in Ids : Len(writes[id]) = 3 /\ id \in DOMAIN pending

\* C6: the open event of a replacement transport writes a fresh frame, on that
\* transport, for every request that is pending (those pending at the close
\* among them), whatever the age of its previous attempt.
C6_ReopenWritesAll ==
  [][(OpenStep /\ epochs > 1) =>
       \A id \in DOMAIN pending :
         /\ Len(writes'[id]) = Len(writes[id]) + 1
         /\ writes'[id][Len(writes'[id])].epoch = connection'[1].epoch
    ]_vars

\* C7: frames written on the same transport carry the same session id, and
\* frames written on different transports carry different session ids.
C7_SessionPerEpoch ==
  \A a, b \in AllWrites : (a.epoch = b.epoch) <=> (a.session = b.session)

\* C8: a request written at time t on a transport that has not closed since,
\* and not acknowledged or resolved, has only that one write 5 seconds later,
\* and 15 seconds later has exactly one retry, written at t + 10.
C8_RetryAtExpiry ==
  \A id \in DOMAIN pending :
    (/\ writes[id] # <<>>
     /\ connection # <<>>
     /\ connection[1].epoch = writes[id][1].epoch
     /\ ~pending[id].acknowledged) =>
      /\ (now = writes[id][1].at + TickSeconds) => Len(writes[id]) = 1
      /\ (now = writes[id][1].at + ExpirationSeconds + TickSeconds) =>
           /\ Len(writes[id]) = 2
           /\ writes[id][2].at = writes[id][1].at + ExpirationSeconds

\* C9: the logger's requests are issued in the order of the log/error calls,
\* and each is issued only when all the earlier ones have settled, so at most
\* one is unsettled at any time.
C9_Serialized ==
  /\ \A i, j \in 1..Len(issued) : i < j => issued[i].line < issued[j].line
  /\ \A i \in 1..(Len(issued) - 1) : resolved[issued[i].id] # <<>>

C9_Witness == Len(issued) = 2 /\ resolved[issued[1].id] # <<>> /\ resolved[issued[2].id] = <<>>

\* C10: once pageId has resolved to null the logger has issued no sendMessage
\* and the registry holds no request; a link that finds pageId null leaves
\* the client as it is and fulfils, so that the next link can start.
C10_NullPageIdNoOp ==
  [][/\ pageId' = "null" => (issued' = <<>> /\ nextId' = 0 /\ DOMAIN pending' = {})
     /\ (pageId = "null" /\ logPc = "awaitPageId" /\ logPc' # logPc) =>
          /\ logPc' = "idle"
          /\ logDone' = logDone + 1
          /\ UNCHANGED <<clientVars, nextId, resolved>>
    ]_vars

C10_Witness == pageId = "null" /\ logDone = 2 /\ logPc = "idle"

\* C11: whenever a resolver was invoked, the entry of its request was still
\* in the registry (the resolver runs first, the entry is deleted afterwards).
C11_ResolvedWhileInRegistry ==
  \A id \in Ids : \A i \in 1..Len(resolved[id]) : resolved[id][i].inRegistry

\* C12: once the resolver of a request has run, its entry is out of the
\* registry and stays out, so that no handler can reach its acknowledged,
\* sent or retries fields; no later step writes a frame for it, and it is
\* not resolved again.
C12_NothingAfterResolution ==
  [][\A id \in Ids :
       resolved[id] # <<>> =>
         /\ id \notin DOMAIN pending
         /\ id \notin DOMAIN pending'
         /\ writes'[id] = writes[id]
         /\ resolved'[id] = resolved[id]
    ]_vars

\* a resolved request, and a later transport that has opened after the
\* window of its last frame ran out
C12_Witness ==
  \E id \in Ids :
    /\ resolved[id] # <<>>
    /\ isConnected(ClientState)
    /\ connection[1].epoch > writes[id][Len(writes[id])].epoch
    /\ now >= writes[id][Len(writes[id])].at + ExpirationSeconds

\* C13: at most one transport has been constructed without its close event
\* having fired, and it is the one the client holds; a step taken while the
\* client holds a transport whose close event does not fire in that step
\* (a sendMessage or an open event, whether the transport is connecting,
\* open or closing) constructs no transport and keeps the one it holds.
C13_OneTransport ==
  [][/\ Cardinality(live') <= 1
     /\ (connection' # <<>> => live' = {connection'[1].epoch})
     /\ (connection # <<>> /\ connection[1].epoch \in live') =>
          (epochs' = epochs /\ live' = live /\ connection'[1].epoch = connection[1].epoch)
     /\ (epochs' # epochs) => (epochs' = epochs + 1 /\ live' = {epochs'})
    ]_vars

\* the second request of the logger was registered while the transport was
\* closing: nothing has been written for it, and there is still one transport
C13_Witness ==
  /\ Len(issued) = 2
  /\ issued[2].id \in DOMAIN pending
  /\ writes[issued[2].id] = <<>>
  /\ connection # <<>>
  /\ connection[1].readyState = "CLOSING"
  /\ live = {connection[1].epoch}

\* C14: the step in which the close event of a transport fires ends with a
\* newly constructed transport, still connecting, held by the client, at the
\* same instant, whether or not a request is pending.
C14_CloseReconnects ==
  [][(live \ live' # {}) =>
       /\ epochs' = epochs + 1
       /\ connection' = <<[epoch |-> epochs + 1, readyState |-> "CONNECTING"]>>
       /\ live' = {epochs + 1}
       /\ now' = now
    ]_vars

\* the transport that replaced the second one is connecting, and the only
\* request was resolved before the second one closed: that close found the
\* registry empty
C14_Witness ==
  /\ epochs = 3
  /\ connection # <<>>
  /\ connection[1].readyState = "CONNECTING"
  /\ nextId = 1
  /\ DOMAIN pending = {}
  /\ resolved[1] # <<>>

\* C15: a request is registered with acknowledged false; no step takes the
\* flag of a pending request from true back to false; in every state the
\* program reaches, an Acknowledge frame for a pending id leaves the flag
\* true and changes nothing else, and a second one right after it changes
\* nothing at all and is reported.
C15_AckMonotone ==
  [][\A id \in Ids :
       /\ CreateStep(id) => ~pending'[id].acknowledged
       /\ (id \in DOMAIN pending) =>
            /\ (id \in DOMAIN pending' /\ pending[id].acknowledged) => pending'[id].acknowledged
            /\ LET ack == [name |-> "acknowledgeMessage", id |-> id, payload |-> "p1"]
                   once == onMessage(MessageState, ack)
                   twice == onMessage([once EXCEPT !.report = "none"], ack)
               IN /\ once.pending = [pending EXCEPT ![id].acknowledged = TRUE]
                  /\ once.resolved = resolved
                  /\ twice.pending = once.pending
                  /\ twice.resolved = once.resolved
                  /\ twice.report = "tried to acknowledge an already acknowledged request"
    ]_vars

\* an acknowledged request, still pending, on a transport that can bring
\* another Acknowledge frame for it
C15_Witness ==
  \E id \in DOMAIN pending :
    /\ pending[id].acknowledged
    /\ id \in peerKnown
    /\ isConnected(ClientState)

\* C16: in every state the program reaches, onMessage given an Acknowledge,
\* ResultSuccess or ResultError frame whose id is not in the registry leaves
\* the registry as it is and invokes no resolver; it only reports.
C16_UnknownIdNoEffect ==
  \A f \in AckFrames \cup ResultFrames :
    f.id \notin DOMAIN pending =>
      LET ms == onMessage(MessageState, f)
      IN /\ ms.pending = pending
         /\ ms.resolved = resolved
         /\ ms.report \in {"failed to find request to mark it as acknowledged",
                           "failed to find request"}

\* the first request of the logger is resolved and out of the registry, the
\* peer knows its id, the second request is pending with a frame written,
\* and the transport is open
C16_Witness ==
  /\ Len(issued) = 2
  /\ resolved[issued[1].id] # <<>>
  /\ issued[1].id \notin DOMAIN pending
  /\ issued[1].id \in peerKnown
  /\ issued[2].id \in DOMAIN pending
  /\ pending[issued[2].id].sent # <<>>
  /\ isConnected(ClientState)

\* the registry with every acknowledged flag cleared
unacknowledged(st) ==
  [st EXCEPT !.pending = [i \in DOMAIN st.pending |-> [st.pending[i] EXCEPT !.acknowledged = FALSE]]]

\* C17: the drive pass of an open event writes the frame of an acknowledged
\* pending request again when the window of its last write has run out, keeps
\* it in the registry, and writes nothing for it otherwise; what the pass
\* writes is what it would write were no request acknowledged.
C17_AckDoesNotStopRetries ==
  [][OpenStep =>
       /\ \A id \in DOMAIN pending :
            (pending[id].acknowledged /\ writes[id] # <<>>) =>
              /\ id \in DOMAIN pending'
              /\ pending'[id].acknowledged
              /\ IF now >= writes[id][Len(writes[id])].at + ExpirationSeconds
                 THEN /\ Len(writes'[id]) = Len(writes[id]) + 1
                      /\ writes'[id][Len(writes'[id])].at = now
                 ELSE writes'[id] = writes[id]
       /\ LET opened == [ClientState EXCEPT !.connection[1].readyState = "OPEN"]
          IN /\ writes' = onOpen(unacknowledged(opened)).writes
             /\ wire' = onOpen(unacknowledged(opened)).wire
    ]_vars

\* an acknowledged pending request whose window has run out, on a
\* replacement transport that is about to open
C17_Witness ==
  \E id \in DOMAIN pending :
    /\ pending[id].acknowledged
    /\ writes[id] # <<>>
    /\ now >= writes[id][Len(writes[id])].at + ExpirationSeconds
    /\ connection # <<>>
    /\ connection[1].readyState = "CONNECTING"

\* C18: a request leaves the registry only in a step that invokes its
\* resolver for a result frame, however many retries it has recorded; and the
\* drive pass of an open event records one more retry for a request that has
\* already recorded maxRetryCount of them or more, when the window of the
\* last one has run out.
C18_MaxRetryCountUnused ==
  [][\A id \in DOMAIN pending :
       /\ (id \notin DOMAIN pending') =>
            /\ Len(resolved'[id]) = Len(resolved[id]) + 1
            /\ results'[id] # <<>>
       /\ (/\ OpenStep
           /\ Len(pending[id].retries) >= pending[id].maxRetryCount
           /\ pending[id].retries # <<>>
           /\ now >= pending[id].retries[Len(pending[id].retries)].expiresAt) =>
             /\ id \in DOMAIN pending'
             /\ Len(pending'[id].retries) = Len(pending[id].retries) + 1
    ]_vars

\* a pending request with more retries recorded than its maxRetryCount
C18_Witness ==
  \E id \in DOMAIN pending : Len(pending[id].retries) > pending[id].maxRetryCount

\* C19: no step changes the sent field of a pending request once it is set,
\* and a step only appends to its retries; a request with a retry has sent
\* set; and every retry is dated no earlier than sent.expiresAt and no
\* earlier than the expiresAt of the retry before it.
C19_AttemptHistoryMonotone ==
  [][\A id \in DOMAIN pending' :
       /\ (id \in DOMAIN pending) =>
            /\ (pending[id].sent # <<>>) => pending'[id].sent = pending[id].sent
            /\ Len(pending'[id].retries) >= Len(pending[id].retries)
            /\ SubSeq(pending'[id].retries, 1, Len(pending[id].retries)) = pending[id].retries
       /\ (pending'[id].retries # <<>>) => pending'[id].sent # <<>>
       /\ \A i \in 1..Len(pending'[id].retries) :
            /\ pending'[id].retries[i].date >= pending'[id].sent[1].expiresAt
            /\ (i > 1) => pending'[id].retries[i].date >= pending'[id].retries[i - 1].expiresAt
    ]_vars

\* a pending request written first on one transport and retried on the two
\* that replaced it
C19_Witness ==
  \E id \in DOMAIN pending :
    /\ pending[id].sent # <<>>
    /\ Len(pending[id].retries) = 2
    /\ epochs = 3

\* C20: while a request issued by the logger is unsettled it is the last one
\* issued, the chain is stopped at the link that awaits it, and no link of a
\* later log/error call has started: nothing is sent for the later lines for
\* as long as it stays unsettled.
C20_HeadOfLine ==
  \A i \in 1..Len(issued) :
    resolved[issued[i].id] = <<>> =>
      /\ i = Len(issued)
      /\ logPc = "awaitSend"
      /\ logReq = <<issued[i].id>>
      /\ logDone = issued[i].line - 1

\* the request of the first line is unsettled on the last transport of the
\* run while the second line waits behind it
C20_Witness ==
  /\ Len(logLines) = 2
  /\ Len(issued) = 1
  /\ issued[1].line = 1
  /\ resolved[issued[1].id] = <<>>
  /\ logDone = 0
  /\ epochs = MaxEpochs
====
